---- MODULE Spec2Model ----
(***************************************************************************)
(* State-machine model of ADPS9960_ColorSensor                             *)
(* (src/include/APDS9960_ColorSensor.h, src/src/APDS9960_ColorSensor.cpp). *)
(*                                                                         *)
(* The object's fields (calibrationStatus, max_ambient, max_red,           *)
(* max_green, max_blue) are the state.  calibrate() is modelled as a       *)
(* process with a position (pc): it is entered, polls the sensor once per  *)
(* loop iteration, and is left after validation.  Every other public       *)
(* method is one atomic action.  The sensor driver, millis() and delay()   *)
(* are the environment: what they return is drawn from small sets.         *)
(* The variable res records what the last completed call saw and returned. *)
(* normRaw, normMax and normOut are the arguments and the result of a      *)
(* direct application of normalizeToRGB (specification SpecNorm).          *)
(* hsvRGB and hsvOut are the triple and the result of the conversion to    *)
(* HSV (SpecHsv); detHSV, detTolerance and detOut the sample, the          *)
(* tolerance and the verdicts of detectColor's cascade and                 *)
(* isStandardColor's switch (SpecDetect).  SpecWindow follows calibrate    *)
(* calls with the duration asked for (requested), the iterations of the    *)
(* sampling loop (polls) and the time spent in delay() (blocked).          *)
(***************************************************************************)
EXTENDS Integers, Sequences, FiniteSets, TLC

VARIABLES calibrationStatus, max_ambient, max_red, max_green, max_blue,
          pc, samplingTimeSeconds, useDefaultsOnFail, elapsed, samples, res,
          normRaw, normMax, normOut, hsvRGB, hsvOut, detHSV, detTolerance,
          detOut, polls, blocked, requested

vars == <<calibrationStatus, max_ambient, max_red, max_green, max_blue,
          pc, samplingTimeSeconds, useDefaultsOnFail, elapsed, samples, res,
          normRaw, normMax, normOut, hsvRGB, hsvOut, detHSV, detTolerance,
          detOut, polls, blocked, requested>>

(***************************************************************************)
(* Program constants                                                       *)
(***************************************************************************)
DEFAULT_SAMPLING_TIME == 5
MAX_SAMPLING_TIME == 10
MIN_SAMPLES_PER_SECOND == 5
MIN_THRESHOLD == 10
SATURATION_THRESHOLD == 65000
DEFAULT_MAX_VALUE == 1000
PollDelayMs == 100
StabilizeDelayMs == 500
MsPerSecond == 1000
Uint8Max == 255

NOT_CALIBRATED == "NOT_CALIBRATED"
CALIBRATED_OK == "CALIBRATED_OK"
CALIBRATED_WITH_DEFAULTS == "CALIBRATED_WITH_DEFAULTS"
CalibrationStatus == {NOT_CALIBRATED, CALIBRATED_OK, CALIBRATED_WITH_DEFAULTS}

(***************************************************************************)
(* Bounds of the model                                                     *)
(***************************************************************************)
\* A poll of the four channels takes 0..MaxReadLatency hundred milliseconds
\* of bus time on top of the 100 ms delay that follows it.
MaxReadLatency == 1

\* The values calibrate() is called with: below, inside and above 1..10.
SamplingTimeInputs == {0, 1, 2, 11}

\* What the four channels <<ambient, red, green, blue>> return when read.
Readings ==
    { <<0, 0, 0, 0>>,
      <<500, 800, 400, 100>>,
      <<10, 9, 9, 0>>,
      <<10, 0, 10, 0>>,
      <<600, 100, 1000, 2000>>,
      <<65001, 10, 10, 10>>,
      <<65000, 65000, 0, 20>> }

\* What the caller's output variables hold before a call.
PriorRaw == { <<7, 7, 7, 7>> }
PriorRGB == { <<7, 7, 7>> }
PriorHex == { 7 }

(***************************************************************************)
(* The sensor driver (SparkFun_APDS9960): four blocking reads, each        *)
(* returning success or failure and a 16-bit magnitude.  One pass over the *)
(* channels is described by failAt (0: every read succeeds, k: the k-th    *)
(* read issued fails) and by the values the channels hold.                 *)
(***************************************************************************)
Channels == <<"ambient", "red", "green", "blue">>


\* A pass that fails carries the values of the channels read before the
\* failure.
FailReadings == { <<500, 800, 400, 100>> }

SensorOutcomes ==
    { s \in [failAt : 0..4, val : Readings] :
         s.failAt # 0 => s.val \in FailReadings }

\* The element of a one-element set: { e(c) : c \in {v} } computes v once.
The(S) == CHOOSE x \in S : TRUE

(***************************************************************************)
(* normalizeToRGB                                                          *)
(***************************************************************************)
\* static_cast<uint32_t>(rawValue) * 255UL: the product modulo 2^32, as its
\* high and low 16-bit halves.
Product32(rawValue) ==
    LET p == rawValue * Uint8Max
    IN  [hi |-> (p \div 65536) % 65536, lo |-> p % 65536]

\* normalizeToRGB without the widening cast: the product is formed in
\* uint16_t and wraps at 2^16.
normalizeToRGBNarrow(rawValue, maxValue) ==
    IF maxValue = 0
    THEN 0
    ELSE LET normalized == ((rawValue * Uint8Max) % 65536) \div maxValue
         IN  IF normalized > Uint8Max THEN Uint8Max ELSE normalized % 256

\* normalizeToRGB dividing by one more than the ceiling, as if the ceiling
\* were an exclusive upper limit.
normalizeToRGBExclusive(rawValue, maxValue) ==
    IF maxValue = 0
    THEN 0
    ELSE LET p == Product32(rawValue)
             normalized == (p.hi * 65536 + p.lo) \div (maxValue + 1)
         IN  IF normalized > Uint8Max THEN Uint8Max ELSE normalized % 256

normalizeToRGB(rawValue, maxValue) ==
    IF maxValue = 0
    THEN 0
    ELSE LET p == Product32(rawValue)
             normalized == (p.hi * 65536 + p.lo) \div maxValue
         IN  IF normalized > Uint8Max THEN Uint8Max ELSE normalized % 256

(***************************************************************************)
(* readRawData                                                             *)
(***************************************************************************)
\* The channels read, in order, by one pass that fails at failAt.
ChannelsRead(failAt) ==
    IF failAt = 0 THEN Channels ELSE SubSeq(Channels, 1, failAt)

\* raw0 is the caller's record before the call.  Each driver read stores into
\* the record's field directly; a failing read stores nothing (clobber FALSE)
\* or a zero (clobber TRUE: the driver clears its out-parameter first).
readRawData(raw0, s, clobber) ==
    [ ok    |-> s.failAt = 0,
      reads |-> ChannelsRead(s.failAt),
      raw   |-> LET field(k) ==
                        IF s.failAt = 0 \/ k < s.failAt THEN s.val[k]
                        ELSE IF k = s.failAt /\ clobber THEN 0
                        ELSE raw0[k]
                IN  <<field(1), field(2), field(3), field(4)>> ]

(***************************************************************************)
(* Calibration                                                             *)
(***************************************************************************)
\* validateCalibrationData without its saturation test.
validateCalibrationDataUnsaturated(nsamples, minSamples, ma, mr, mg, mb) ==
    IF nsamples < minSamples THEN FALSE
    ELSE IF ma < MIN_THRESHOLD THEN FALSE
    ELSE IF mr < MIN_THRESHOLD /\ mg < MIN_THRESHOLD /\ mb < MIN_THRESHOLD
         THEN FALSE
    ELSE IF ma = 0 \/ (mr = 0 /\ mg = 0 /\ mb = 0) THEN FALSE
    ELSE TRUE

validateCalibrationData(nsamples, minSamples, ma, mr, mg, mb) ==
    IF nsamples < minSamples THEN FALSE
    ELSE IF ma < MIN_THRESHOLD THEN FALSE
    ELSE IF mr < MIN_THRESHOLD /\ mg < MIN_THRESHOLD /\ mb < MIN_THRESHOLD
         THEN FALSE
    ELSE IF \/ ma > SATURATION_THRESHOLD
            \/ mr > SATURATION_THRESHOLD
            \/ mg > SATURATION_THRESHOLD
            \/ mb > SATURATION_THRESHOLD
         THEN FALSE
    ELSE IF ma = 0 \/ (mr = 0 /\ mg = 0 /\ mb = 0) THEN FALSE
    ELSE TRUE

\* setDefaultCalibration storing the three colour ceilings and clearing the
\* ambient one.
setDefaultCalibrationColours ==
    <<0, DEFAULT_MAX_VALUE, DEFAULT_MAX_VALUE, DEFAULT_MAX_VALUE>>

\* The four values setDefaultCalibration stores, <<ambient, red, green, blue>>.
setDefaultCalibration ==
    <<DEFAULT_MAX_VALUE, DEFAULT_MAX_VALUE, DEFAULT_MAX_VALUE, DEFAULT_MAX_VALUE>>

\* calibrate's correction of its first argument.
EffectiveSamplingTime(t) ==
    IF t < 1 \/ t > MAX_SAMPLING_TIME THEN DEFAULT_SAMPLING_TIME ELSE t

\* calibrate marking every failed window as calibrated with defaults, whatever
\* its second argument.
CalibrateStatusAlwaysDefaults(success, useDefaults) ==
    IF success THEN CALIBRATED_OK ELSE CALIBRATED_WITH_DEFAULTS

\* calibrate without its call of setDefaultCalibration.
CalibrateCeilingsKept(success, useDefaults, m) == m

\* calibrate's handling of performCalibration's verdict: the status it sets
\* and the ceilings it leaves (m: the maxima gathered by the window).
CalibrateStatus(success, useDefaults) ==
    IF success THEN CALIBRATED_OK
    ELSE IF useDefaults THEN CALIBRATED_WITH_DEFAULTS
    ELSE NOT_CALIBRATED

CalibrateCeilings(success, useDefaults, m) ==
    IF success THEN m
    ELSE IF useDefaults THEN setDefaultCalibration
    ELSE m

\* The maxima updated channel by channel as each read succeeds, so that a
\* pass failing at a later channel still raises the earlier ones.
PollCeilingsPartial(m, s) ==
    LET upd(k) == IF (s.failAt = 0 \/ k < s.failAt) /\ s.val[k] > m[k]
                  THEN s.val[k] ELSE m[k]
    IN  <<upd(1), upd(2), upd(3), upd(4)>>

\* One iteration's update of the maxima: m the maxima, s the pass.
PollCeilings(m, s) ==
    IF s.failAt = 0
    THEN LET upd(k) == IF s.val[k] > m[k] THEN s.val[k] ELSE m[k]
         IN  <<upd(1), upd(2), upd(3), upd(4)>>
    ELSE m

PollSamples(n, s) == IF s.failAt = 0 THEN n + 1 ELSE n

\* readRGB's fail-safe taken on every call, whatever the status.
FallbackStatusAlways(st) == CALIBRATED_WITH_DEFAULTS

FallbackCeilingsAlways(st, m) == setDefaultCalibration

\* readRGB's fail-safe setting the status only.
FallbackCeilingsKept(st, m) == m

\* setDefaultCalibration setting the status as calibrate's fallback does.
SetDefaultStatusMarked(st) == CALIBRATED_WITH_DEFAULTS

\* readRGB's fail-safe: the status and the ceilings the read goes on with.
FallbackStatus(st) ==
    IF st = NOT_CALIBRATED THEN CALIBRATED_WITH_DEFAULTS ELSE st

FallbackCeilings(st, m) ==
    IF st = NOT_CALIBRATED THEN setDefaultCalibration ELSE m

\* The public setDefaultCalibration leaves calibrationStatus as it is.
SetDefaultStatus(st) == st

Ceilings == <<max_ambient, max_red, max_green, max_blue>>

SetCeilings(m) ==
    /\ max_ambient' = m[1]
    /\ max_red' = m[2]
    /\ max_green' = m[3]
    /\ max_blue' = m[4]

(***************************************************************************)
(* readRGB and the hexadecimal reads                                       *)
(***************************************************************************)
\* readRGB after its fail-safe: rgb0 the caller's variables before the call,
\* m the ceilings.  The raw record is a local, zero-initialised.
readRGB(rgb0, s, m) ==
    The({ IF ~r.ok
          THEN [ok |-> FALSE, reads |-> r.reads, raw |-> r.raw, rgb |-> rgb0]
          ELSE [ok |-> TRUE, reads |-> r.reads, raw |-> r.raw,
                rgb |-> <<normalizeToRGB(r.raw[2], m[2]),
                          normalizeToRGB(r.raw[3], m[3]),
                          normalizeToRGB(r.raw[4], m[4])>>]
          : r \in {readRawData(<<0, 0, 0, 0>>, s, FALSE)} })

\* Bitwise or of two naturals.
RECURSIVE BitOr(_, _)
BitOr(a, b) ==
    IF a = 0 THEN b
    ELSE IF b = 0 THEN a
    ELSE 2 * BitOr(a \div 2, b \div 2) + (IF a % 2 = 1 \/ b % 2 = 1 THEN 1 ELSE 0)

\* x << n for an 8-bit x widened to 32 bits, n <= 16: nothing is shifted out.
ShiftLeft(x, n) == x * 2^n

\* The packing without the casts to uint32_t, in a 16-bit int: r << 16 has
\* no bit left.
PackHexNarrow(rgb) ==
    BitOr(BitOr(ShiftLeft(rgb[1], 16) % 65536, ShiftLeft(rgb[2], 8)), rgb[3])

\* (r << 16) | (g << 8) | b
PackHex(rgb) ==
    BitOr(BitOr(ShiftLeft(rgb[1], 16), ShiftLeft(rgb[2], 8)), rgb[3])

\* uint32_t readColorHex(): the value returned.
readColorHex(s, m) ==
    The({ [ok |-> c.ok, reads |-> c.reads, raw |-> c.raw, rgb |-> c.rgb,
           hex |-> IF ~c.ok THEN 0 ELSE PackHex(c.rgb)]
          : c \in {readRGB(<<0, 0, 0>>, s, m)} })

\* bool readColorHex(uint32_t &hexColor): the value returned and hexColor.
readColorHexOut(s, m) ==
    The({ [ok |-> c.ok, reads |-> c.reads, raw |-> c.raw, rgb |-> c.rgb,
           hex |-> IF ~c.ok THEN 0 ELSE PackHex(c.rgb)]
          : c \in {readRGB(<<0, 0, 0>>, s, m)} })

HexDigits ==
    <<"0", "1", "2", "3", "4", "5", "6", "7",
      "8", "9", "A", "B", "C", "D", "E", "F">>

\* sprintf(buffer, "#%06lX", hex) for hex < 2^24: the seven characters.
FormatHex(hex) ==
    <<"#">> \o [i \in 1..6 |-> HexDigits[((hex \div 16^(6 - i)) % 16) + 1]]

(***************************************************************************)
(* IEEE 754 binary32 arithmetic (the type float), round to nearest, ties   *)
(* to even.  A value is [s, e, m]: (-1)^s * m * 2^e with 2^23 <= m < 2^24, *)
(* or m = 0 for zero.  The values met here are far from overflow and from  *)
(* the subnormal range.                                                    *)
(***************************************************************************)
FZero == [s |-> 0, e |-> 0, m |-> 0]

RECURSIVE BitLen(_)
BitLen(n) == IF n = 0 THEN 0 ELSE 1 + BitLen(n \div 2)

\* The rounding of q + r / (2 * half) to an integer, ties to even, as a float
\* of exponent e: q the bits kept, r the bits dropped, half their midpoint.
RoundOff(s, q, r, half, e) ==
    The({ IF q1 = 2^24
          THEN [s |-> s, e |-> e + 1, m |-> 2^23]
          ELSE [s |-> s, e |-> e, m |-> q1]
          : q1 \in { IF r > half \/ (r = half /\ q % 2 = 1)
                     THEN q + 1 ELSE q } })

\* The float nearest to (-1)^s * m * 2^e, for m < 2^31.
FRound(s, m, e) ==
    IF m = 0 THEN FZero
    ELSE The({ IF n <= 24
               THEN [s |-> s, e |-> e - (24 - n), m |-> m * 2^(24 - n)]
               ELSE RoundOff(s, m \div 2^(n - 24), m % 2^(n - 24),
                             2^(n - 25), e + (n - 24))
               : n \in {BitLen(m)} })

\* static_cast<float>(n), 0 <= n < 2^24
FromInt(n) == FRound(0, n, 0)

FNeg(a) == IF a.m = 0 THEN a ELSE [a EXCEPT !.s = 1 - a.s]

\* m shifted right by d bits, the bits shifted out or-ed into the last bit.
ShiftRightJam(m, d) ==
    IF d = 0 THEN m
    ELSE IF d >= 30 THEN (IF m # 0 THEN 1 ELSE 0)
    ELSE IF m % 2^d # 0 /\ (m \div 2^d) % 2 = 0 THEN (m \div 2^d) + 1
    ELSE m \div 2^d

\* hi + lo for non-zero hi, lo with hi.e >= lo.e, with three guard bits
AddAligned(hi, lo) ==
    The({ IF hi.s = lo.s THEN FRound(hi.s, hi.m * 8 + y, hi.e - 3)
          ELSE IF hi.m * 8 >= y THEN FRound(hi.s, hi.m * 8 - y, hi.e - 3)
          ELSE FRound(lo.s, y - hi.m * 8, hi.e - 3)
          : y \in {ShiftRightJam(lo.m * 8, hi.e - lo.e)} })

\* x + y
FAdd(x, y) ==
    The({ IF a.m = 0 THEN b
          ELSE IF b.m = 0 THEN a
          ELSE IF a.e >= b.e THEN AddAligned(a, b)
          ELSE AddAligned(b, a)
          : a \in {x}, b \in {y} })

\* x - y
FSub(x, y) == FAdd(x, FNeg(y))

\* n steps of binary long division of r by d, quotient bits appended to q.
RECURSIVE DivBits(_, _, _, _)
DivBits(r, d, q, n) ==
    IF n = 0 THEN [q |-> q, r |-> r]
    ELSE IF r >= d THEN DivBits(2 * (r - d), d, 2 * q + 1, n - 1)
    ELSE DivBits(2 * r, d, 2 * q, n - 1)

\* x / y for y # 0
FDiv(x, y) ==
    The({ IF a.m = 0 THEN FZero
          ELSE The({ FRound((a.s + b.s) % 2,
                            2 * d.q + (IF d.r # 0 THEN 1 ELSE 0),
                            a.e - b.e - 27)
                     : d \in {DivBits(a.m, b.m, 0, 27)} })
          : a \in {x}, b \in {y} })

\* m without its trailing zero bits, and how many there were
RECURSIVE OddPart(_, _)
OddPart(m, z) ==
    IF m = 0 \/ m % 2 = 1 THEN [m |-> m, z |-> z] ELSE OddPart(m \div 2, z + 1)

\* x * y, where the product of the mantissas' odd parts is below 2^31
FMul(x, y) ==
    The({ The({ FRound((a.s + b.s) % 2, p.m * q.m, a.e + p.z + b.e + q.z)
                : p \in {OddPart(a.m, 0)}, q \in {OddPart(b.m, 0)} })
          : a \in {x}, b \in {y} })

MagLt(a, b) ==
    IF b.m = 0 THEN FALSE
    ELSE IF a.m = 0 THEN TRUE
    ELSE a.e < b.e \/ (a.e = b.e /\ a.m < b.m)

FLt(a, b) ==
    IF a.s # b.s THEN a.s = 1
    ELSE IF a.s = 0 THEN MagLt(a, b)
    ELSE MagLt(b, a)

FGt(a, b) == FLt(b, a)
FLe(a, b) == ~FLt(b, a)
FGe(a, b) == ~FLt(a, b)

\* The float a decimal literal num/den denotes (2/10 for 0.2f).
FLit(num, den) == FDiv(FromInt(num), FromInt(den))

(***************************************************************************)
(* readColorHSV and the classification of an HSV sample                    *)
(***************************************************************************)
StandardColor ==
    <<"UNKNOWN", "RED", "ORANGE", "YELLOW", "GREEN", "CYAN", "BLUE",
      "PURPLE", "MAGENTA", "WHITE", "BLACK">>

HsvZero == [h |-> FZero, s |-> FZero, v |-> FZero]

\* float maxc = rf; if (gf > maxc) maxc = gf; if (bf > maxc) maxc = bf;
Largest(rf, gf, bf) ==
    The({ IF FGt(bf, maxc) THEN bf ELSE maxc
          : maxc \in {IF FGt(gf, rf) THEN gf ELSE rf} })

\* The minimum taken over the first two components only.
SmallestOfTwo(rf, gf, bf) ==
    IF FLt(gf, rf) THEN gf ELSE rf

\* float minc = rf; if (gf < minc) minc = gf; if (bf < minc) minc = bf;
Smallest(rf, gf, bf) ==
    The({ IF FLt(bf, minc) THEN bf ELSE minc
          : minc \in {IF FLt(gf, rf) THEN gf ELSE rf} })

\* Hue without the wrap of a negative sixth in the red branch.
HueUnwrapped(rf, gf, bf, maxc, delta) ==
    IF maxc = rf
    THEN FDiv(FSub(gf, bf), delta)
    ELSE IF maxc = gf
    THEN FAdd(FDiv(FSub(bf, rf), delta), FromInt(2))
    ELSE FAdd(FDiv(FSub(rf, gf), delta), FromInt(4))

\* h before it is scaled to degrees
Hue(rf, gf, bf, maxc, delta) ==
    IF maxc = rf
    THEN The({ IF FLt(h, FZero) THEN FAdd(h, FromInt(6)) ELSE h
               : h \in {FDiv(FSub(gf, bf), delta)} })
    ELSE IF maxc = gf
    THEN FAdd(FDiv(FSub(bf, rf), delta), FromInt(2))
    ELSE FAdd(FDiv(FSub(rf, gf), delta), FromInt(4))

\* The conversion readColorHSV applies to the RGB it has read.  hsv0 is the
\* caller's record before the call: the gray branch writes all three fields,
\* as does the chromatic one.
toHSV(rgb) ==
    The({ The({ The({ IF FLt(delta, FLit(1, 100000))
                      THEN [h |-> FZero, s |-> FZero, v |-> maxc]
                      ELSE [h |-> FMul(Hue(rf, gf, bf, maxc, delta),
                                       FromInt(60)),
                            s |-> FDiv(delta, maxc), v |-> maxc]
                      : delta \in {FSub(maxc, minc)} })
                : maxc \in {Largest(rf, gf, bf)},
                  minc \in {Smallest(rf, gf, bf)} })
          : rf \in {FDiv(FromInt(rgb[1]), FromInt(255))},
            gf \in {FDiv(FromInt(rgb[2]), FromInt(255))},
            bf \in {FDiv(FromInt(rgb[3]), FromInt(255))} })

\* if (tolerance < 0.0f) tolerance = 0.0f; if (tolerance > 1.0f) tolerance = 1.0f;
ClampTolerance(tolerance) ==
    The({ IF FGt(t, FromInt(1)) THEN FromInt(1) ELSE t
          : t \in {IF FLt(tolerance, FZero) THEN FZero ELSE tolerance} })

\* isColorInRange on the sample read; range = <<hMin, hMax, sMin, sMax, vMin, vMax>>
inRange(hsv, range) ==
    LET hueInRange ==
            IF FLe(range[1], range[2])
            THEN FGe(hsv.h, range[1]) /\ FLe(hsv.h, range[2])
            ELSE FGe(hsv.h, range[1]) \/ FLe(hsv.h, range[2])
    IN  /\ hueInRange
        /\ FGe(hsv.s, range[3]) /\ FLe(hsv.s, range[4])
        /\ FGe(hsv.v, range[5]) /\ FLe(hsv.v, range[6])

\* A band that includes its upper hue limit.
InBandClosed(hsv, lo, hi, sn, sd, vn, vd, t) ==
    /\ FGe(hsv.h, FromInt(lo)) /\ FLe(hsv.h, FromInt(hi))
    /\ FGe(hsv.s, FSub(FLit(sn, sd), t))
    /\ FGe(hsv.v, FSub(FLit(vn, vd), t))

\* hue in [lo, hi), saturation and value at or above their floors less t
InBand(hsv, lo, hi, sn, sd, vn, vd, t) ==
    /\ FGe(hsv.h, FromInt(lo)) /\ FLt(hsv.h, FromInt(hi))
    /\ FGe(hsv.s, FSub(FLit(sn, sd), t))
    /\ FGe(hsv.v, FSub(FLit(vn, vd), t))

\* isStandardColor's switch on the sample read, tolerance as passed
matchesStandard(hsv, color, tolerance) ==
    The({ CASE color = "UNKNOWN" -> FALSE
            [] color = "RED" ->
                  /\ FLt(hsv.h, FromInt(20)) \/ FGe(hsv.h, FromInt(340))
                  /\ FGe(hsv.s, FSub(FLit(5, 10), t))
                  /\ FGe(hsv.v, FSub(FLit(3, 10), t))
            [] color = "ORANGE"  -> InBand(hsv, 20, 50, 5, 10, 4, 10, t)
            [] color = "YELLOW"  -> InBand(hsv, 50, 80, 5, 10, 5, 10, t)
            [] color = "GREEN"   -> InBand(hsv, 80, 165, 4, 10, 3, 10, t)
            [] color = "CYAN"    -> InBand(hsv, 165, 210, 4, 10, 4, 10, t)
            [] color = "BLUE"    -> InBand(hsv, 210, 265, 4, 10, 3, 10, t)
            [] color = "PURPLE"  -> InBand(hsv, 265, 295, 4, 10, 3, 10, t)
            [] color = "MAGENTA" -> InBand(hsv, 295, 340, 5, 10, 4, 10, t)
            [] color = "WHITE" ->
                  /\ FLe(hsv.s, FAdd(FLit(2, 10), t))
                  /\ FGe(hsv.v, FSub(FLit(7, 10), t))
            [] color = "BLACK" -> FLe(hsv.v, FAdd(FLit(2, 10), t))
            [] OTHER -> FALSE
          : t \in {ClampTolerance(tolerance)} })

\* detectColor testing White before Black.
detectWhiteFirst(hsv, tolerance) ==
    The({ IF /\ FLe(hsv.s, FAdd(FLit(2, 10), t))
             /\ FGe(hsv.v, FSub(FLit(7, 10), t)) THEN "WHITE"
          ELSE IF FLe(hsv.v, FAdd(FLit(2, 10), t)) THEN "BLACK"
          ELSE IF \/ FLt(hsv.s, FSub(FLit(3, 10), t))
                  \/ FLt(hsv.v, FSub(FLit(25, 100), t)) THEN "UNKNOWN"
          ELSE IF /\ FLt(hsv.h, FromInt(20)) \/ FGe(hsv.h, FromInt(340))
                  /\ FGe(hsv.s, FSub(FLit(5, 10), t))
                  /\ FGe(hsv.v, FSub(FLit(3, 10), t)) THEN "RED"
          ELSE IF InBand(hsv, 20, 50, 5, 10, 4, 10, t) THEN "ORANGE"
          ELSE IF InBand(hsv, 50, 80, 5, 10, 5, 10, t) THEN "YELLOW"
          ELSE IF InBand(hsv, 80, 165, 4, 10, 3, 10, t) THEN "GREEN"
          ELSE IF InBand(hsv, 165, 210, 4, 10, 4, 10, t) THEN "CYAN"
          ELSE IF InBand(hsv, 210, 265, 4, 10, 3, 10, t) THEN "BLUE"
          ELSE IF InBand(hsv, 265, 295, 4, 10, 3, 10, t) THEN "PURPLE"
          ELSE IF InBand(hsv, 295, 340, 5, 10, 4, 10, t) THEN "MAGENTA"
          ELSE "UNKNOWN"
          : t \in {ClampTolerance(tolerance)} })

\* detectColor with its saturation floor at 0.45 - tolerance.
detectHighFloor(hsv, tolerance) ==
    The({ IF FLe(hsv.v, FAdd(FLit(2, 10), t)) THEN "BLACK"
          ELSE IF /\ FLe(hsv.s, FAdd(FLit(2, 10), t))
                  /\ FGe(hsv.v, FSub(FLit(7, 10), t)) THEN "WHITE"
          ELSE IF \/ FLt(hsv.s, FSub(FLit(45, 100), t))
                  \/ FLt(hsv.v, FSub(FLit(25, 100), t)) THEN "UNKNOWN"
          ELSE IF /\ FLt(hsv.h, FromInt(20)) \/ FGe(hsv.h, FromInt(340))
                  /\ FGe(hsv.s, FSub(FLit(5, 10), t))
                  /\ FGe(hsv.v, FSub(FLit(3, 10), t)) THEN "RED"
          ELSE IF InBand(hsv, 20, 50, 5, 10, 4, 10, t) THEN "ORANGE"
          ELSE IF InBand(hsv, 50, 80, 5, 10, 5, 10, t) THEN "YELLOW"
          ELSE IF InBand(hsv, 80, 165, 4, 10, 3, 10, t) THEN "GREEN"
          ELSE IF InBand(hsv, 165, 210, 4, 10, 4, 10, t) THEN "CYAN"
          ELSE IF InBand(hsv, 210, 265, 4, 10, 3, 10, t) THEN "BLUE"
          ELSE IF InBand(hsv, 265, 295, 4, 10, 3, 10, t) THEN "PURPLE"
          ELSE IF InBand(hsv, 295, 340, 5, 10, 4, 10, t) THEN "MAGENTA"
          ELSE "UNKNOWN"
          : t \in {ClampTolerance(tolerance)} })

\* detectColor's cascade on the sample read, tolerance as passed
detect(hsv, tolerance) ==
    The({ IF FLe(hsv.v, FAdd(FLit(2, 10), t)) THEN "BLACK"
          ELSE IF /\ FLe(hsv.s, FAdd(FLit(2, 10), t))
                  /\ FGe(hsv.v, FSub(FLit(7, 10), t)) THEN "WHITE"
          ELSE IF \/ FLt(hsv.s, FSub(FLit(3, 10), t))
                  \/ FLt(hsv.v, FSub(FLit(25, 100), t)) THEN "UNKNOWN"
          ELSE IF /\ FLt(hsv.h, FromInt(20)) \/ FGe(hsv.h, FromInt(340))
                  /\ FGe(hsv.s, FSub(FLit(5, 10), t))
                  /\ FGe(hsv.v, FSub(FLit(3, 10), t)) THEN "RED"
          ELSE IF InBand(hsv, 20, 50, 5, 10, 4, 10, t) THEN "ORANGE"
          ELSE IF InBand(hsv, 50, 80, 5, 10, 5, 10, t) THEN "YELLOW"
          ELSE IF InBand(hsv, 80, 165, 4, 10, 3, 10, t) THEN "GREEN"
          ELSE IF InBand(hsv, 165, 210, 4, 10, 4, 10, t) THEN "CYAN"
          ELSE IF InBand(hsv, 210, 265, 4, 10, 3, 10, t) THEN "BLUE"
          ELSE IF InBand(hsv, 265, 295, 4, 10, 3, 10, t) THEN "PURPLE"
          ELSE IF InBand(hsv, 295, 340, 5, 10, 4, 10, t) THEN "MAGENTA"
          ELSE "UNKNOWN"
          : t \in {ClampTolerance(tolerance)} })

\* Tolerances passed: 0, the default 0.15, and one above 1 (clamped).
Tolerances == { FZero, FLit(15, 100), FromInt(2) }

\* Ranges passed to isColorInRange: orange at tolerance 0.15, a band that
\* wraps through 0, and everything.
Ranges ==
    { <<FromInt(20), FromInt(50), FLit(35, 100), FromInt(1),
        FLit(25, 100), FromInt(1)>>,
      <<FromInt(340), FromInt(20), FZero, FromInt(1), FZero, FromInt(1)>>,
      <<FZero, FromInt(360), FZero, FromInt(1), FZero, FromInt(1)>> }


\* What the caller's HSV record holds before readColorHSV.
PriorHSV == { [h |-> FromInt(7), s |-> FromInt(7), v |-> FromInt(7)] }

(***************************************************************************)
(* The float computations, tabulated over the values this model's reads    *)
(* can meet, so that each is carried out once.                             *)
(***************************************************************************)
\* Every value the ceilings can hold: the defaults, and the channel-wise
\* maxima of any set of readings (all zero for the empty set).
Join(S) ==
    LET top(k) == IF S = {} THEN 0
                  ELSE CHOOSE v \in {r[k] : r \in S} :
                          \A w \in {r[k] : r \in S} : w <= v
    IN  <<top(1), top(2), top(3), top(4)>>

CeilingValues == {Join(S) : S \in SUBSET Readings} \cup {setDefaultCalibration}

RGBValues ==
    { <<normalizeToRGB(r[2], m[2]), normalizeToRGB(r[3], m[3]),
        normalizeToRGB(r[4], m[4])>> : r \in Readings, m \in CeilingValues }

toHSVTable == [rgb \in RGBValues |-> toHSV(rgb)]

HSVValues == {toHSVTable[rgb] : rgb \in RGBValues}

inRangeTable ==
    [hsv \in HSVValues |-> [range \in Ranges |-> inRange(hsv, range)]]

matchesStandardTable ==
    [hsv \in HSVValues |->
        [k \in 1..Len(StandardColor) |->
            [t \in Tolerances |-> matchesStandard(hsv, StandardColor[k], t)]]]

detectTable == [hsv \in HSVValues |-> [t \in Tolerances |-> detect(hsv, t)]]

\* bool readColorHSV(HSV &hsvColor): hsv0 is the caller's record before the call
readColorHSV(hsv0, s, m) ==
    The({ [ok |-> c.ok, reads |-> c.reads, raw |-> c.raw, rgb |-> c.rgb,
           hsv |-> IF ~c.ok THEN hsv0 ELSE toHSVTable[c.rgb]]
          : c \in {readRGB(<<0, 0, 0>>, s, m)} })

\* bool isColorInRange(...): HSV hsv{} is a zeroed local
isColorInRange(range, s, m) ==
    The({ [ok |-> c.ok, reads |-> c.reads, raw |-> c.raw, rgb |-> c.rgb,
           hsv |-> c.hsv,
           ret |-> IF ~c.ok THEN FALSE ELSE inRangeTable[c.hsv][range]]
          : c \in {readColorHSV(HsvZero, s, m)} })

\* bool isStandardColor(StandardColor color, float tolerance), color the
\* k-th enumerator
isStandardColor(k, tolerance, s, m) ==
    The({ [ok |-> c.ok, reads |-> c.reads, raw |-> c.raw, rgb |-> c.rgb,
           hsv |-> c.hsv,
           ret |-> IF ~c.ok THEN FALSE
                   ELSE matchesStandardTable[c.hsv][k][tolerance]]
          : c \in {readColorHSV(HsvZero, s, m)} })

\* StandardColor detectColor(float tolerance)
detectColor(tolerance, s, m) ==
    The({ [ok |-> c.ok, reads |-> c.reads, raw |-> c.raw, rgb |-> c.rgb,
           hsv |-> c.hsv,
           ret |-> IF ~c.ok THEN "UNKNOWN" ELSE detectTable[c.hsv][tolerance]]
          : c \in {readColorHSV(HsvZero, s, m)} })

(***************************************************************************)
(* The record of the last call                                             *)
(***************************************************************************)
NoResult ==
    [ op |-> "none", ok |-> FALSE, sensorOk |-> FALSE, status0 |-> NOT_CALIBRATED,
      max0 |-> <<0, 0, 0, 0>>, reads |-> <<>>,
      raw0 |-> <<0, 0, 0, 0>>, raw |-> <<0, 0, 0, 0>>,
      rgb0 |-> <<0, 0, 0>>, rgb |-> <<0, 0, 0>>,
      hex0 |-> 0, hex |-> 0, str |-> <<>>, name |-> "",
      hsv0 |-> HsvZero, hsv |-> HsvZero, color |-> "UNKNOWN",
      tolerance |-> FZero, range |-> <<>>,
      useDefaults |-> FALSE ]

\* What every call but calibrate records first: its name and the object's
\* state on entry.
Entry(name) ==
    [NoResult EXCEPT !.op = name, !.status0 = calibrationStatus,
                     !.max0 = Ceilings]

\* calibrate clears the ceilings before anything reads them: it records the
\* status on entry and its second argument.
CalibrateEntry(d) ==
    [NoResult EXCEPT !.op = "calibrate", !.status0 = calibrationStatus,
                     !.useDefaults = d]

(***************************************************************************)
(* The state machine                                                       *)
(***************************************************************************)
\* Constructor.
Init ==
    /\ calibrationStatus = NOT_CALIBRATED
    /\ max_ambient = 0
    /\ max_red = 0
    /\ max_green = 0
    /\ max_blue = 0
    /\ pc = "idle"
    /\ samplingTimeSeconds = 0
    /\ useDefaultsOnFail = FALSE
    /\ elapsed = 0
    /\ samples = 0
    /\ res = NoResult
    /\ normRaw = 0
    /\ normMax = 0
    /\ normOut = -1
    /\ hsvRGB = <<0, 0, 0>>
    /\ hsvOut = <<>>
    /\ detHSV = HsvZero
    /\ detTolerance = FZero
    /\ detOut = <<>>
    /\ polls = 0
    /\ blocked = 0
    /\ requested = 0

CalUnchanged ==
    UNCHANGED <<pc, samplingTimeSeconds, useDefaultsOnFail, elapsed, samples>>

\* The variables of the specifications that apply one function or follow
\* one calibration window.
HsvUnchanged == UNCHANGED <<hsvRGB, hsvOut>>

DetUnchanged == UNCHANGED <<detHSV, detTolerance, detOut>>

WindowUnchanged == UNCHANGED <<polls, blocked, requested>>

AsideUnchanged ==
    /\ UNCHANGED <<normRaw, normMax, normOut>>
    /\ HsvUnchanged
    /\ DetUnchanged
    /\ WindowUnchanged

ObjUnchanged ==
    UNCHANGED <<calibrationStatus, max_ambient, max_red, max_green, max_blue>>

\* calibrate() up to the first test of the sampling loop: the argument is
\* corrected, performCalibration waits 500 ms, clears the four maxima and
\* takes startTime.
CalibrateBegin ==
    /\ pc = "idle"
    /\ \E t \in SamplingTimeInputs, d \in BOOLEAN :
          /\ samplingTimeSeconds' = EffectiveSamplingTime(t)
          /\ useDefaultsOnFail' = d
          /\ res' = CalibrateEntry(d)
    /\ SetCeilings(<<0, 0, 0, 0>>)
    /\ elapsed' = 0
    /\ samples' = 0
    /\ pc' = "sampling"
    /\ UNCHANGED calibrationStatus
    /\ AsideUnchanged

\* One iteration of the sampling loop: the four reads (short-circuit &&),
\* the update of the maxima when all succeeded, delay(100).
CalibratePoll ==
    /\ pc = "sampling"
    /\ elapsed < samplingTimeSeconds * MsPerSecond
    /\ \E s \in SensorOutcomes, latency \in 0..MaxReadLatency :
          /\ SetCeilings(PollCeilings(Ceilings, s))
          /\ samples' = PollSamples(samples, s)
          /\ elapsed' = elapsed + latency * 100 + PollDelayMs
    /\ UNCHANGED <<calibrationStatus, pc, samplingTimeSeconds,
                   useDefaultsOnFail, res>>
    /\ AsideUnchanged

\* The loop is left: validateCalibrationData, then calibrate's handling of
\* the verdict.
CalibrateEnd ==
    /\ pc = "sampling"
    /\ ~(elapsed < samplingTimeSeconds * MsPerSecond)
    /\ LET success == validateCalibrationData(
                          samples,
                          samplingTimeSeconds * MIN_SAMPLES_PER_SECOND,
                          max_ambient, max_red, max_green, max_blue)
       IN  /\ calibrationStatus' = CalibrateStatus(success, useDefaultsOnFail)
           /\ SetCeilings(CalibrateCeilings(success, useDefaultsOnFail,
                                            Ceilings))
           /\ res' = [res EXCEPT !.ok = success, !.raw = Ceilings]
    /\ pc' = "idle"
    /\ samplingTimeSeconds' = 0
    /\ useDefaultsOnFail' = FALSE
    /\ elapsed' = 0
    /\ samples' = 0
    /\ AsideUnchanged

\* void setDefaultCalibration(), called by the user.
SetDefaultCalibration ==
    /\ pc = "idle"
    /\ SetCeilings(setDefaultCalibration)
    /\ calibrationStatus' = SetDefaultStatus(calibrationStatus)
    /\ res' = Entry("setDefaultCalibration")
    /\ CalUnchanged
    /\ AsideUnchanged

GetCalibrationStatus ==
    /\ pc = "idle"
    /\ res' = [Entry("getCalibrationStatus") EXCEPT !.name = calibrationStatus]
    /\ ObjUnchanged
    /\ CalUnchanged
    /\ AsideUnchanged

IsCalibrated ==
    /\ pc = "idle"
    /\ res' = [Entry("isCalibrated") EXCEPT
                  !.ok = (calibrationStatus # NOT_CALIBRATED)]
    /\ ObjUnchanged
    /\ CalUnchanged
    /\ AsideUnchanged

GetCalibrationStatusName ==
    /\ pc = "idle"
    /\ res' = [Entry("getCalibrationStatusName") EXCEPT
                  !.name = CASE calibrationStatus = NOT_CALIBRATED ->
                                    "NOT_CALIBRATED"
                             [] calibrationStatus = CALIBRATED_OK ->
                                    "CALIBRATED_OK"
                             [] calibrationStatus = CALIBRATED_WITH_DEFAULTS ->
                                    "CALIBRATED_WITH_DEFAULTS"
                             [] OTHER -> "UNKNOWN"]
    /\ ObjUnchanged
    /\ CalUnchanged
    /\ AsideUnchanged

ReadRawData ==
    /\ pc = "idle"
    /\ \E raw0 \in PriorRaw, s \in SensorOutcomes, clobber \in BOOLEAN :
          \E r \in {readRawData(raw0, s, clobber)} :
              res' = [Entry("readRawData") EXCEPT
                         !.ok = r.ok, !.sensorOk = r.ok, !.reads = r.reads,
                         !.raw0 = raw0, !.raw = r.raw]
    /\ ObjUnchanged
    /\ CalUnchanged
    /\ AsideUnchanged

\* The fail-safe at the head of readRGB, reached by every read built on it.
AutoCalibrate ==
    /\ calibrationStatus' = FallbackStatus(calibrationStatus)
    /\ SetCeilings(FallbackCeilings(calibrationStatus, Ceilings))

\* The ceilings readRGB normalises with.
ReadCeilings == FallbackCeilings(calibrationStatus, Ceilings)

\* bool readRGB(uint8_t&, uint8_t&, uint8_t&) and bool readRGB(RGB&).
ReadRGB ==
    /\ pc = "idle"
    /\ \E rgb0 \in PriorRGB, s \in SensorOutcomes :
          \E c \in {readRGB(rgb0, s, ReadCeilings)} :
              res' = [Entry("readRGB") EXCEPT
                         !.ok = c.ok, !.sensorOk = c.ok, !.reads = c.reads, !.raw = c.raw,
                         !.rgb0 = rgb0, !.rgb = c.rgb]
    /\ AutoCalibrate
    /\ CalUnchanged
    /\ AsideUnchanged

\* uint32_t readColorHex()
ReadColorHex ==
    /\ pc = "idle"
    /\ \E s \in SensorOutcomes :
          \E c \in {readColorHex(s, ReadCeilings)} :
              res' = [Entry("readColorHex") EXCEPT
                         !.ok = c.ok, !.sensorOk = c.ok, !.reads = c.reads, !.raw = c.raw,
                         !.rgb = c.rgb, !.hex = c.hex]
    /\ AutoCalibrate
    /\ CalUnchanged
    /\ AsideUnchanged

\* bool readColorHex(uint32_t &hexColor)
ReadColorHexOut ==
    /\ pc = "idle"
    /\ \E hex0 \in PriorHex, s \in SensorOutcomes :
          \E c \in {readColorHexOut(s, ReadCeilings)} :
              res' = [Entry("readColorHexOut") EXCEPT
                         !.ok = c.ok, !.sensorOk = c.ok, !.reads = c.reads, !.raw = c.raw,
                         !.rgb = c.rgb, !.hex0 = hex0, !.hex = c.hex]
    /\ AutoCalibrate
    /\ CalUnchanged
    /\ AsideUnchanged

\* String getColorHexString()
GetColorHexString ==
    /\ pc = "idle"
    /\ \E s \in SensorOutcomes :
          \E c \in {readColorHex(s, ReadCeilings)} :
              res' = [Entry("getColorHexString") EXCEPT
                         !.ok = c.ok, !.sensorOk = c.ok, !.reads = c.reads, !.raw = c.raw,
                         !.rgb = c.rgb, !.hex = c.hex,
                         !.str = FormatHex(c.hex)]
    /\ AutoCalibrate
    /\ CalUnchanged
    /\ AsideUnchanged

\* bool readColorHSV(HSV &hsvColor)
ReadColorHSV ==
    /\ pc = "idle"
    /\ \E hsv0 \in PriorHSV, s \in SensorOutcomes :
          \E c \in {readColorHSV(hsv0, s, ReadCeilings)} :
              res' = [Entry("readColorHSV") EXCEPT
                         !.ok = c.ok, !.sensorOk = c.ok, !.reads = c.reads, !.raw = c.raw,
                         !.rgb = c.rgb, !.hsv0 = hsv0, !.hsv = c.hsv]
    /\ AutoCalibrate
    /\ CalUnchanged
    /\ AsideUnchanged

\* bool isColorInRange(hMin, hMax, sMin, sMax, vMin, vMax)
IsColorInRange ==
    /\ pc = "idle"
    /\ \E range \in Ranges, s \in SensorOutcomes :
          \E c \in {isColorInRange(range, s, ReadCeilings)} :
              res' = [Entry("isColorInRange") EXCEPT
                         !.ok = c.ret, !.sensorOk = c.ok, !.reads = c.reads, !.raw = c.raw,
                         !.rgb = c.rgb, !.hsv = c.hsv, !.range = range]
    /\ AutoCalibrate
    /\ CalUnchanged
    /\ AsideUnchanged

\* bool isStandardColor(color, tolerance)
IsStandardColor ==
    /\ pc = "idle"
    /\ \E k \in 1..Len(StandardColor), t \in Tolerances, s \in SensorOutcomes :
          \E c \in {isStandardColor(k, t, s, ReadCeilings)} :
              res' = [Entry("isStandardColor") EXCEPT
                         !.ok = c.ret, !.sensorOk = c.ok, !.reads = c.reads, !.raw = c.raw,
                         !.rgb = c.rgb, !.hsv = c.hsv,
                         !.color = StandardColor[k], !.tolerance = t]
    /\ AutoCalibrate
    /\ CalUnchanged
    /\ AsideUnchanged

\* StandardColor detectColor(tolerance)
DetectColor ==
    /\ pc = "idle"
    /\ \E t \in Tolerances, s \in SensorOutcomes :
          \E c \in {detectColor(t, s, ReadCeilings)} :
              res' = [Entry("detectColor") EXCEPT
                         !.ok = c.ok, !.sensorOk = c.ok, !.reads = c.reads, !.raw = c.raw,
                         !.rgb = c.rgb, !.hsv = c.hsv, !.color = c.ret,
                         !.tolerance = t]
    /\ AutoCalibrate
    /\ CalUnchanged
    /\ AsideUnchanged

Next ==
    \/ CalibrateBegin
    \/ CalibratePoll
    \/ CalibrateEnd
    \/ SetDefaultCalibration
    \/ GetCalibrationStatus
    \/ IsCalibrated
    \/ GetCalibrationStatusName
    \/ ReadRawData
    \/ ReadRGB
    \/ ReadColorHex
    \/ ReadColorHexOut
    \/ GetColorHexString
    \/ ReadColorHSV
    \/ IsColorInRange
    \/ IsStandardColor
    \/ DetectColor

Spec == Init /\ [][Next]_vars

(***************************************************************************)
(* normalizeToRGB applied directly to arguments drawn from the edges of    *)
(* uint16_t and from around the constants of the class.                    *)
(***************************************************************************)
RawValues ==
    { 0, 1, 2, 9, 10, 128, 255, 256, 257, 258, 500, 999, 1000, 1001,
      32768, 65000, 65001, 65534, 65535 }

MaxValues == RawValues

InitNorm ==
    /\ calibrationStatus = NOT_CALIBRATED
    /\ max_ambient = 0
    /\ max_red = 0
    /\ max_green = 0
    /\ max_blue = 0
    /\ pc = "idle"
    /\ samplingTimeSeconds = 0
    /\ useDefaultsOnFail = FALSE
    /\ elapsed = 0
    /\ samples = 0
    /\ res = NoResult
    /\ normRaw \in RawValues
    /\ normMax \in MaxValues
    /\ normOut = -1
    /\ hsvRGB = <<0, 0, 0>>
    /\ hsvOut = <<>>
    /\ detHSV = HsvZero
    /\ detTolerance = FZero
    /\ detOut = <<>>
    /\ polls = 0
    /\ blocked = 0
    /\ requested = 0

\* uint8_t normalizeToRGB(uint16_t rawValue, uint16_t maxValue)
Normalize ==
    /\ normOut = -1
    /\ normOut' = normalizeToRGB(normRaw, normMax)
    /\ UNCHANGED <<normRaw, normMax, res>>
    /\ ObjUnchanged
    /\ CalUnchanged
    /\ HsvUnchanged
    /\ DetUnchanged
    /\ WindowUnchanged

NextNorm == Normalize

SpecNorm == InitNorm /\ [][NextNorm]_vars

(***************************************************************************)
(* The conversion to HSV applied to 8-bit triples (specification SpecHsv)  *)
(***************************************************************************)
\* The object as the constructor leaves it, no call in progress.
Fresh ==
    /\ calibrationStatus = NOT_CALIBRATED
    /\ max_ambient = 0
    /\ max_red = 0
    /\ max_green = 0
    /\ max_blue = 0
    /\ pc = "idle"
    /\ samplingTimeSeconds = 0
    /\ useDefaultsOnFail = FALSE
    /\ elapsed = 0
    /\ samples = 0
    /\ res = NoResult

\* uint8_t components: the ends, neighbours that differ by one step, and the
\* components of the documented example.
ComponentValues ==
    {0, 1, 2, 3, 25, 51, 64, 100, 102, 127, 128, 129, 200, 204, 253, 254, 255}

InitHsv ==
    /\ Fresh
    /\ normRaw = 0
    /\ normMax = 0
    /\ normOut = -1
    /\ hsvRGB \in ComponentValues \X ComponentValues \X ComponentValues
    /\ hsvOut = <<>>
    /\ detHSV = HsvZero
    /\ detTolerance = FZero
    /\ detOut = <<>>
    /\ polls = 0
    /\ blocked = 0
    /\ requested = 0

\* readColorHSV from the point where readRGB has delivered rgbColor.
ToHSV ==
    /\ hsvOut = <<>>
    /\ hsvOut' = toHSV(hsvRGB)
    /\ UNCHANGED <<hsvRGB, normRaw, normMax, normOut, res>>
    /\ ObjUnchanged
    /\ CalUnchanged
    /\ DetUnchanged
    /\ WindowUnchanged

NextHsv == ToHSV

SpecHsv == InitHsv /\ [][NextHsv]_vars

(***************************************************************************)
(* detectColor's cascade and isStandardColor's switch applied to one       *)
(* sample (specification SpecDetect)                                       *)
(***************************************************************************)
ColorNames == {StandardColor[k] : k \in 1..Len(StandardColor)}

\* Hues: the limits of the eight bands, a hue just under three of them, and
\* one inside each band.
HueValues ==
    {FromInt(d) : d \in {0, 10, 20, 35, 50, 65, 80, 120, 165, 190, 210, 240,
                         265, 280, 295, 320, 340, 359}}
        \cup {FLit(1999, 100), FLit(4999, 100), FLit(33999, 100)}

\* Saturations and values: the floors and limits of the cascade at
\* tolerance 0, the points between them, and the ends.
LevelValues ==
    {FLit(c, 100) : c \in {0, 10, 20, 25, 30, 35, 40, 45, 50, 70, 85, 100}}

\* The samples: the grid, and every sample a read of this model can yield.
SampleValues ==
    {[h |-> h, s |-> s, v |-> v] :
        h \in HueValues, s \in LevelValues, v \in LevelValues}
        \cup HSVValues

\* Tolerances passed: below 0 and above 1 (both clamped), the ends, the
\* default 0.15 and two more inside.
ToleranceValues ==
    { FNeg(FromInt(1)), FZero, FLit(5, 100), FLit(15, 100), FLit(5, 10),
      FromInt(1), FromInt(2) }

InitDetect ==
    /\ Fresh
    /\ normRaw = 0
    /\ normMax = 0
    /\ normOut = -1
    /\ hsvRGB = <<0, 0, 0>>
    /\ hsvOut = <<>>
    /\ detHSV \in SampleValues
    /\ detTolerance \in ToleranceValues
    /\ detOut = <<>>
    /\ polls = 0
    /\ blocked = 0
    /\ requested = 0

\* detectColor and isStandardColor (for each StandardColor) from the point
\* where readColorHSV has delivered the same sample to each.
Classify ==
    /\ detOut = <<>>
    /\ detOut' = [color |-> detect(detHSV, detTolerance),
                  matches |-> [c \in ColorNames |->
                                 matchesStandard(detHSV, c, detTolerance)]]
    /\ UNCHANGED <<detHSV, detTolerance, normRaw, normMax, normOut, res>>
    /\ ObjUnchanged
    /\ CalUnchanged
    /\ HsvUnchanged
    /\ WindowUnchanged

NextDetect == Classify

SpecDetect == InitDetect /\ [][NextDetect]_vars

(***************************************************************************)
(* One calibrate call after another, followed with the count of the        *)
(* iterations of the sampling loop, the time spent in delay() and the      *)
(* duration asked for (specification SpecWindow)                           *)
(***************************************************************************)
\* The first argument of calibrate: both sides of 1 and of MAX_SAMPLING_TIME.
WindowTimeInputs == {0, 1, 10, 11}

\* The second argument of calibrate in the followed calls.
WindowFallbackInputs == {FALSE}

\* The sensor during a followed window: a pass delivers one valid reading
\* or fails at its first read.
WindowOutcomes ==
    {s \in SensorOutcomes : s.val \in FailReadings /\ s.failAt \in {0, 1}}

\* The loop test letting an iteration start at the very end of the window.
WindowOpenInclusive(e, d) == e <= d * MsPerSecond

\* while (millis() - startTime < samplingTimeSeconds * 1000)
WindowOpen(e, d) == e < d * MsPerSecond

InitWindow ==
    /\ Fresh
    /\ normRaw = 0
    /\ normMax = 0
    /\ normOut = -1
    /\ hsvRGB = <<0, 0, 0>>
    /\ hsvOut = <<>>
    /\ detHSV = HsvZero
    /\ detTolerance = FZero
    /\ detOut = <<>>
    /\ polls = 0
    /\ blocked = 0
    /\ requested = 0

\* calibrate() up to the first test of the sampling loop: the argument is
\* corrected, performCalibration waits in delay(500), clears the four maxima
\* and takes startTime.
WindowBegin ==
    /\ pc = "idle"
    /\ \E t \in WindowTimeInputs, d \in WindowFallbackInputs :
          /\ requested' = t
          /\ samplingTimeSeconds' = EffectiveSamplingTime(t)
          /\ useDefaultsOnFail' = d
          /\ res' = CalibrateEntry(d)
    /\ blocked' = StabilizeDelayMs
    /\ SetCeilings(<<0, 0, 0, 0>>)
    /\ elapsed' = 0
    /\ samples' = 0
    /\ polls' = 0
    /\ pc' = "sampling"
    /\ UNCHANGED <<calibrationStatus, normRaw, normMax, normOut>>
    /\ HsvUnchanged
    /\ DetUnchanged

\* One iteration of the sampling loop: the four reads, the update of the
\* maxima when all succeeded, delay(100).
WindowPoll ==
    /\ pc = "sampling"
    /\ WindowOpen(elapsed, samplingTimeSeconds)
    /\ \E s \in WindowOutcomes, latency \in 0..MaxReadLatency :
          /\ SetCeilings(PollCeilings(Ceilings, s))
          /\ samples' = PollSamples(samples, s)
          /\ elapsed' = elapsed + latency * 100 + PollDelayMs
    /\ polls' = polls + 1
    /\ blocked' = blocked + PollDelayMs
    /\ UNCHANGED <<calibrationStatus, pc, samplingTimeSeconds,
                   useDefaultsOnFail, res, requested,
                   normRaw, normMax, normOut>>
    /\ HsvUnchanged
    /\ DetUnchanged

\* The loop is left: validateCalibrationData, then calibrate's handling of
\* the verdict.
WindowEnd ==
    /\ pc = "sampling"
    /\ ~WindowOpen(elapsed, samplingTimeSeconds)
    /\ \E success \in {validateCalibrationData(
                            samples,
                            samplingTimeSeconds * MIN_SAMPLES_PER_SECOND,
                            max_ambient, max_red, max_green, max_blue)} :
          /\ calibrationStatus' = CalibrateStatus(success, useDefaultsOnFail)
          /\ SetCeilings(CalibrateCeilings(success, useDefaultsOnFail,
                                           Ceilings))
          /\ res' = [res EXCEPT !.ok = success, !.raw = Ceilings]
    /\ pc' = "idle"
    /\ samplingTimeSeconds' = 0
    /\ useDefaultsOnFail' = FALSE
    /\ elapsed' = 0
    /\ samples' = 0
    /\ UNCHANGED <<polls, blocked, requested, normRaw, normMax, normOut>>
    /\ HsvUnchanged
    /\ DetUnchanged

NextWindow == WindowBegin \/ WindowPoll \/ WindowEnd

\* The loop runs in the caller's thread with nothing to wait for but delay():
\* an iteration that can run does, and so does the return.
SpecWindow ==
    /\ InitWindow
    /\ [][NextWindow]_vars
    /\ WF_vars(WindowPoll)
    /\ WF_vars(WindowEnd)

(***************************************************************************)
(* Properties                                                              *)
(***************************************************************************)
\* The reads built on readRGB, by the name res.op gives them.
DerivedReads ==
    { "readRGB", "readColorHex", "readColorHexOut", "getColorHexString",
      "readColorHSV", "isColorInRange", "isStandardColor", "detectColor" }

Defaults == <<1000, 1000, 1000, 1000>>

\* min(255, floor(raw * 255 / ceiling)), 0 for a zero ceiling.
Scaled(raw, ceiling) ==
    IF ceiling = 0 THEN 0
    ELSE IF (raw * 255) \div ceiling > 255 THEN 255
    ELSE (raw * 255) \div ceiling

\* The red, green and blue of a raw record, each scaled by the same ceiling.
ScaledRGB(raw, ceiling) ==
    <<Scaled(raw[2], ceiling), Scaled(raw[3], ceiling), Scaled(raw[4], ceiling)>>

\* The step on which calibrate returns.
CalibrateReturns == pc = "sampling" /\ pc' = "idle"

\* C1: a read built on readRGB that is called in NOT_CALIBRATED leaves the
\* status CALIBRATED_WITH_DEFAULTS and the four ceilings at 1000 whether or
\* not the sensor read succeeded, the values it computed were scaled by 1000,
\* and no such read leaves the status NOT_CALIBRATED.
C1_FallbackBeforeRead ==
    res.op \in DerivedReads =>
        /\ calibrationStatus # NOT_CALIBRATED
        /\ res.status0 = NOT_CALIBRATED =>
              /\ calibrationStatus = CALIBRATED_WITH_DEFAULTS
              /\ Ceilings = Defaults
              /\ res.sensorOk => res.rgb = ScaledRGB(res.raw, 1000)

\* C1: a readColorHSV called in NOT_CALIBRATED whose sensor read failed.
C1_Witness ==
    /\ res.op = "readColorHSV"
    /\ res.status0 = NOT_CALIBRATED
    /\ ~res.sensorOk
    /\ res.max0 # Defaults
    /\ Ceilings = Defaults

\* C2: calibrate returns true, and leaves the status CALIBRATED_OK, exactly
\* when at the end of the window the successful samples number at least 5
\* times the effective duration, the ambient maximum is at least 10, one of
\* the red, green, blue maxima is at least 10, no maximum is above 65000 and
\* the four maxima are not all 0; the maxima are then the ceilings.
C2_Criteria ==
    /\ samples >= 5 * samplingTimeSeconds
    /\ max_ambient >= 10
    /\ max_red >= 10 \/ max_green >= 10 \/ max_blue >= 10
    /\ max_ambient <= 65000 /\ max_red <= 65000
    /\ max_green <= 65000 /\ max_blue <= 65000
    /\ Ceilings # <<0, 0, 0, 0>>

C2_SuccessIffCriteria ==
    [][CalibrateReturns =>
          /\ res'.ok <=> C2_Criteria
          /\ calibrationStatus' = CALIBRATED_OK <=> C2_Criteria
          /\ C2_Criteria => Ceilings' = Ceilings
          /\ Ceilings = <<0, 0, 0, 0>> => ~res'.ok]_vars

\* C2: calibrate has returned true with a red maximum below 10.
C2_Witness ==
    /\ pc = "idle"
    /\ res.op = "calibrate"
    /\ res.ok
    /\ calibrationStatus = CALIBRATED_OK
    /\ max_red < 10
    /\ Ceilings = res.raw

\* C3: when the window fails validation and useDefaultsOnFailure is true,
\* calibrate returns false, the four ceilings are 1000 and the status is
\* CALIBRATED_WITH_DEFAULTS, whatever they were before.
C3_FailureWithDefaults ==
    [][CalibrateReturns /\ ~C2_Criteria /\ useDefaultsOnFail =>
          /\ ~res'.ok
          /\ Ceilings' = Defaults
          /\ calibrationStatus' = CALIBRATED_WITH_DEFAULTS]_vars

\* C3: calibrate, entered in CALIBRATED_OK, has failed on a saturated window
\* with useDefaultsOnFailure true.
C3_Witness ==
    /\ pc = "idle"
    /\ res.op = "calibrate"
    /\ ~res.ok
    /\ res.useDefaults
    /\ res.status0 = CALIBRATED_OK
    /\ res.raw[1] > 65000
    /\ Ceilings = Defaults

\* C4: a calibrate that gathered fewer than 5 * duration successful polls
\* with useDefaultsOnFailure false returns false and leaves the status
\* NOT_CALIBRATED whatever it was, and a read called in NOT_CALIBRATED
\* scales by 1000, not by the maxima the failed window left.
C4_FailureWithoutDefaults ==
    [][/\ CalibrateReturns /\ samples < 5 * samplingTimeSeconds
          /\ ~useDefaultsOnFail =>
              /\ ~res'.ok
              /\ calibrationStatus' = NOT_CALIBRATED
       /\ pc = "idle" /\ calibrationStatus = NOT_CALIBRATED
          /\ res'.op \in DerivedReads /\ res'.sensorOk =>
              /\ res'.rgb = ScaledRGB(res'.raw, 1000)
              /\ Ceilings' = Defaults]_vars

\* C4: a read that succeeded in NOT_CALIBRATED over ceilings a failed window
\* had left, with a result those ceilings would not have given.
C4_Witness ==
    /\ res.op = "readRGB"
    /\ res.sensorOk
    /\ res.status0 = NOT_CALIBRATED
    /\ res.max0 = <<500, 800, 400, 100>>
    /\ res.rgb # <<Scaled(res.raw[2], res.max0[2]),
                   Scaled(res.raw[3], res.max0[3]),
                   Scaled(res.raw[4], res.max0[4])>>

\* C5: the status changes only on the return of calibrate or by the
\* fallback of a read called in NOT_CALIBRATED (to CALIBRATED_WITH_DEFAULTS);
\* it becomes NOT_CALIBRATED again only by a calibrate that fails with
\* useDefaultsOnFailure false.
C5_StatusTransitions ==
    [][/\ calibrationStatus' # calibrationStatus =>
              \/ CalibrateReturns
              \/ /\ pc = "idle"
                 /\ res'.op \in DerivedReads
                 /\ calibrationStatus = NOT_CALIBRATED
                 /\ calibrationStatus' = CALIBRATED_WITH_DEFAULTS
       /\ calibrationStatus # NOT_CALIBRATED
          /\ calibrationStatus' = NOT_CALIBRATED =>
              CalibrateReturns /\ ~res'.ok /\ ~useDefaultsOnFail]_vars

\* C5: a calibrate entered in CALIBRATED_WITH_DEFAULTS has left the status
\* NOT_CALIBRATED.
C5_Witness ==
    /\ pc = "idle"
    /\ res.op = "calibrate"
    /\ res.status0 = CALIBRATED_WITH_DEFAULTS
    /\ calibrationStatus = NOT_CALIBRATED

\* C6, as stated: between the return of one calibrate and the entry of the
\* next no operation changes a ceiling.
C6_CeilingsFrozenOutsideCalibrate ==
    [][pc = "idle" /\ pc' = "idle" => Ceilings' = Ceilings]_vars

\* C6, amended: between the return of one calibrate and the entry of the
\* next the ceilings change only by setDefaultCalibration or by a read built
\* on readRGB called in NOT_CALIBRATED, and then all four become 1000;
\* readRawData, the status queries and the reads in the two calibrated
\* statuses change none.
C6_CeilingsChangeOnlyToDefaults ==
    [][pc = "idle" /\ pc' = "idle" /\ Ceilings' # Ceilings =>
          /\ Ceilings' = Defaults
          /\ \/ res'.op = "setDefaultCalibration"
             \/ /\ res'.op \in DerivedReads
                /\ calibrationStatus = NOT_CALIBRATED]_vars

\* C6: setDefaultCalibration called in CALIBRATED_OK has replaced the
\* ceilings a successful calibrate had set.
C6_Witness ==
    /\ pc = "idle"
    /\ res.op = "setDefaultCalibration"
    /\ res.status0 = CALIBRATED_OK
    /\ res.max0 # Defaults
    /\ Ceilings = Defaults

\* C7: setDefaultCalibration sets the four ceilings to 1000 and leaves the
\* status as it was.
C7_SetDefaultKeepsStatus ==
    res.op = "setDefaultCalibration" =>
        /\ Ceilings = Defaults
        /\ calibrationStatus = res.status0

\* C7: setDefaultCalibration called in NOT_CALIBRATED over other ceilings.
C7_Witness ==
    /\ res.op = "setDefaultCalibration"
    /\ res.status0 = NOT_CALIBRATED
    /\ res.max0 = <<500, 800, 400, 100>>
    /\ calibrationStatus = NOT_CALIBRATED

\* C8, the order and the short circuit: readRawData issues the reads in the
\* order ambient, red, green, blue and none after the one that fails.
C8_OrderAndShortCircuit ==
    res.op = "readRawData" =>
        /\ \E n \in 1..4 : res.reads = SubSeq(Channels, 1, n)
        /\ res.ok => res.reads = Channels

\* C8, as stated: after a readRawData that failed the caller's record holds
\* none of the values read during the call.
C8_NoPartialData ==
    res.op = "readRawData" /\ ~res.ok => res.raw = res.raw0

\* C9: when the sensor read fails readRGB and readColorHSV return false with
\* their outputs as they were, readColorHex() returns 0, readColorHex(out)
\* returns false with out 0, detectColor returns UNKNOWN, isStandardColor
\* and isColorInRange return false; when it succeeds the hex value is
\* r * 65536 + g * 256 + b of the normalized RGB.
C9_FailurePropagated ==
    /\ res.op \in DerivedReads /\ ~res.sensorOk =>
          /\ res.op = "readRGB" => ~res.ok /\ res.rgb = res.rgb0
          /\ res.op = "readColorHSV" => ~res.ok /\ res.hsv = res.hsv0
          /\ res.op = "readColorHex" => res.hex = 0
          /\ res.op = "readColorHexOut" => ~res.ok /\ res.hex = 0
          /\ res.op = "detectColor" => res.color = "UNKNOWN"
          /\ res.op = "isStandardColor" => ~res.ok
          /\ res.op = "isColorInRange" => ~res.ok
    /\ /\ res.op \in {"readColorHex", "readColorHexOut", "getColorHexString"}
       /\ res.sensorOk
       => res.hex = res.rgb[1] * 65536 + res.rgb[2] * 256 + res.rgb[3]

\* C9: a readColorHex() that succeeded with three non-zero components.
C9_Witness ==
    /\ res.op = "readColorHex"
    /\ res.sensorOk
    /\ res.rgb[1] > 0 /\ res.rgb[2] > 0 /\ res.rgb[3] > 0
    /\ res.hex > 65536

\* C10: normalizeToRGB(raw, ceiling) is 0 for a zero ceiling and otherwise
\* min(255, floor(raw * 255 / ceiling)); it is in 0..255; the 32-bit product
\* is raw * 255 itself; and it does not decrease as raw grows.
C10_Normalize ==
    normOut # -1 =>
        /\ normMax = 0 => normOut = 0
        /\ normMax # 0 => normOut = Scaled(normRaw, normMax)
        /\ normOut \in 0..255
        /\ Product32(normRaw).hi * 65536 + Product32(normRaw).lo
              = normRaw * 255
        /\ \A r \in RawValues :
              r <= normRaw => normalizeToRGB(r, normMax) <= normOut

\* C10: normalizeToRGB applied where the product passes 2^16 and the
\* quotient stays under 255.
C10_Witness ==
    /\ normRaw = 500
    /\ normMax = 1000
    /\ normOut = 127

\* C11 as stated: for every 16-bit ceiling, zero included, a raw value equal
\* to the ceiling is normalised to 255.
C11_EveryCeilingToMax ==
    (normOut # -1 /\ normRaw = normMax) => normOut = 255

\* C11: for every ceiling in 1..65535 a raw value equal to the ceiling is
\* normalised to 255; for the ceiling 0 the raw value 0 is normalised to 0.
C11_NonZeroCeilingToMax ==
    (normOut # -1 /\ normRaw = normMax) =>
        /\ normMax \in 1..65535 => normOut = 255
        /\ normMax = 0 => normOut = 0

\* C11: normalizeToRGB applied to the largest ceiling and a raw value equal
\* to it.
C11_Witness ==
    /\ normRaw = 65535
    /\ normMax = 65535
    /\ normOut = 255

\* The largest of three integers.
Max3(a, b, c) ==
    IF a >= b /\ a >= c THEN a ELSE IF b >= c THEN b ELSE c

\* C12: for every 8-bit RGB triple the hue is at least 0 and below 360, the
\* value is max(r, g, b) / 255, the saturation is in [0, 1], and a triple
\* with r = g = b has hue 0 and saturation 0.
C12_HsvRanges ==
    hsvOut # <<>> =>
        /\ FGe(hsvOut.h, FZero)
        /\ FLt(hsvOut.h, FromInt(360))
        /\ hsvOut.v = FDiv(FromInt(Max3(hsvRGB[1], hsvRGB[2], hsvRGB[3])),
                           FromInt(255))
        /\ FGe(hsvOut.s, FZero)
        /\ FLe(hsvOut.s, FromInt(1))
        /\ (hsvRGB[1] = hsvRGB[2] /\ hsvRGB[2] = hsvRGB[3]) =>
               (hsvOut.h = FZero /\ hsvOut.s = FZero)

\* C12: a red-max triple whose green is below its blue by one step, so that
\* the sixth is negative before the wrap and the hue ends just under 360.
C12_Witness ==
    /\ hsvRGB = <<255, 0, 1>>
    /\ hsvOut # <<>>
    /\ FGt(hsvOut.h, FromInt(359))
    /\ FLt(hsvOut.h, FromInt(360))

\* C13: for every sample and tolerance, a sample whose value is at most
\* 0.2 + t (t the tolerance clamped to [0, 1]) is detected as BLACK whatever
\* its hue and saturation and whatever else it matches; so is every sample
\* whose value is at most 0.2, at every tolerance.
C13_BlackFirst ==
    detOut # <<>> =>
        /\ FLe(detHSV.v, FAdd(FLit(2, 10), ClampTolerance(detTolerance)))
               => detOut.color = "BLACK"
        /\ FLe(detHSV.v, FLit(2, 10)) => detOut.color = "BLACK"

\* C13: a sample detected as BLACK that also matches WHITE and the chromatic
\* band RED.
C13_Witness ==
    /\ detOut # <<>>
    /\ detOut.color = "BLACK"
    /\ detOut.matches["WHITE"]
    /\ detOut.matches["RED"]
    /\ FGt(detHSV.v, FLit(2, 10))

Chromatic ==
    {"RED", "ORANGE", "YELLOW", "GREEN", "CYAN", "BLUE", "PURPLE", "MAGENTA"}

\* C14: at tolerance 0, for a sample with hue in [0, 360), saturation at
\* least 0.5 and value at least 0.5, exactly one of the eight chromatic
\* colors matches, and that color is the one detected.
C14_BandsPartition ==
    ( /\ detOut # <<>>
      /\ detTolerance = FZero
      /\ FGe(detHSV.h, FZero) /\ FLt(detHSV.h, FromInt(360))
      /\ FGe(detHSV.s, FLit(5, 10))
      /\ FGe(detHSV.v, FLit(5, 10)) ) =>
        /\ Cardinality({c \in Chromatic : detOut.matches[c]}) = 1
        /\ detOut.color \in Chromatic
        /\ detOut.matches[detOut.color]

\* C14: a sample on the limit between two bands, at the floors of
\* saturation and value, classified at tolerance 0.
C14_Witness ==
    /\ detOut # <<>>
    /\ detTolerance = FZero
    /\ detHSV = [h |-> FromInt(50), s |-> FLit(5, 10), v |-> FLit(5, 10)]
    /\ detOut.color = "YELLOW"
    /\ ~detOut.matches["ORANGE"]

\* C19: for every sample and tolerance, a detected color other than UNKNOWN
\* matches that color; UNKNOWN is detected exactly when none of the ten
\* named colors matches; and a sample under the chromatic floor
\* (saturation below 0.3 - t or value below 0.25 - t) matches no chromatic
\* color, so the floor changes no result.
C19_DetectAgreesWithMatches ==
    detOut # <<>> =>
        /\ detOut.color # "UNKNOWN" => detOut.matches[detOut.color]
        /\ detOut.color = "UNKNOWN"
              <=> \A c \in ColorNames \ {"UNKNOWN"} : ~detOut.matches[c]
        /\ ( \/ FLt(detHSV.s, FSub(FLit(3, 10), ClampTolerance(detTolerance)))
             \/ FLt(detHSV.v, FSub(FLit(25, 100),
                                   ClampTolerance(detTolerance))) )
              => \A c \in Chromatic : ~detOut.matches[c]

\* C19: a sample that is neither BLACK nor WHITE and is stopped by the
\* chromatic floor.
C19_Witness ==
    /\ detOut # <<>>
    /\ detOut.color = "UNKNOWN"
    /\ detTolerance = FZero
    /\ detHSV = [h |-> FromInt(120), s |-> FLit(25, 100), v |-> FLit(5, 10)]

\* The documented example: a read that delivered the raw reading
\* (ambient 500, red 800, green 400, blue 100) under colour ceilings 1000.
ExampleRead ==
    /\ res.op \in {"readRGB", "readColorHSV", "isStandardColor"}
    /\ res.sensorOk
    /\ res.raw = <<500, 800, 400, 100>>
    /\ max_red = 1000 /\ max_green = 1000 /\ max_blue = 1000

\* What the example says of every quantity but the hue: RGB (204, 102, 25),
\* saturation 0.877 and value 0.8 to the digits given, and
\* isStandardColor(ORANGE, 0.15) true.
ExampleRest ==
    /\ res.rgb = <<204, 102, 25>>
    /\ res.op # "readRGB" =>
          /\ FGe(res.hsv.s, FLit(8765, 10000))
          /\ FLe(res.hsv.s, FLit(8775, 10000))
          /\ FGe(res.hsv.v, FLit(795, 1000))
          /\ FLe(res.hsv.v, FLit(805, 1000))
    /\ ( /\ res.op = "isStandardColor"
         /\ res.color = "ORANGE"
         /\ res.tolerance = FLit(15, 100) ) => res.ok

\* C15 as stated: in the example the hue is about 20.1 degrees (taken
\* generously as within half a degree), with the rest as documented.
C15_ExampleHue20 ==
    ExampleRead =>
        /\ ExampleRest
        /\ res.op # "readRGB" =>
              /\ FGe(res.hsv.h, FLit(196, 10))
              /\ FLe(res.hsv.h, FLit(206, 10))

\* C15: in the example readRGB yields (204, 102, 25), the conversion yields
\* hue about 25.8 degrees, saturation about 0.877 and value about 0.8, and
\* isStandardColor(ORANGE, 0.15) is true.
C15_ExampleHue26 ==
    ExampleRead =>
        /\ ExampleRest
        /\ res.op # "readRGB" =>
              /\ FGe(res.hsv.h, FLit(2575, 100))
              /\ FLe(res.hsv.h, FLit(2585, 100))

\* C15: isStandardColor(ORANGE, 0.15) has returned true on the example.
C15_Witness ==
    /\ ExampleRead
    /\ res.op = "isStandardColor"
    /\ res.color = "ORANGE"
    /\ res.tolerance = FLit(15, 100)
    /\ res.ok
    /\ res.rgb = <<204, 102, 25>>

\* The channel-wise larger of the maxima m and a reading r.
Raised(m, r) ==
    << IF r[1] > m[1] THEN r[1] ELSE m[1], IF r[2] > m[2] THEN r[2] ELSE m[2],
       IF r[3] > m[3] THEN r[3] ELSE m[3], IF r[4] > m[4] THEN r[4] ELSE m[4] >>

\* C17: the window starts with the four maxima and the sample count at 0; a
\* poll in which a read fails leaves the count and all four maxima as they
\* were, a poll in which all four succeed counts one sample and raises each
\* maximum to the value read if that is larger, each channel by itself; while
\* no poll has succeeded the maxima are 0; and the window ends only when its
\* time is up.
C17_FailedPollSkipped ==
    /\ [](pc = "sampling" =>
            /\ \A s \in SensorOutcomes :
                  /\ s.failAt # 0 =>
                        /\ PollCeilings(Ceilings, s) = Ceilings
                        /\ PollSamples(samples, s) = samples
                  /\ s.failAt = 0 =>
                        /\ PollCeilings(Ceilings, s) = Raised(Ceilings, s.val)
                        /\ PollSamples(samples, s) = samples + 1
            /\ samples = 0 => Ceilings = <<0, 0, 0, 0>>)
    /\ [][ /\ (pc = "idle" /\ pc' = "sampling") =>
                 (Ceilings' = <<0, 0, 0, 0>> /\ samples' = 0)
           /\ (pc = "sampling" /\ pc' = "sampling") =>
                 \/ samples' = samples /\ Ceilings' = Ceilings
                 \/ /\ samples' = samples + 1
                    /\ \E r \in Readings : Ceilings' = Raised(Ceilings, r)
           /\ (pc = "sampling" /\ pc' = "idle") =>
                 elapsed >= samplingTimeSeconds * 1000 ]_vars

\* C17: two polls have passed, none has counted (a successful one would
\* have), and the maxima are still 0 although the failing passes read
\* non-zero channels before the failure.
C17_Witness ==
    /\ pc = "sampling"
    /\ elapsed >= 200
    /\ samples = 0
    /\ Ceilings = <<0, 0, 0, 0>>

\* C18: between operations, in CALIBRATED_WITH_DEFAULTS all four ceilings
\* are 1000, and in CALIBRATED_OK the ambient ceiling is in 10..65000, each
\* colour ceiling is at most 65000 and one of them is at least 10.
C18_StatusBoundsCeilings ==
    pc = "idle" =>
        /\ calibrationStatus = CALIBRATED_WITH_DEFAULTS =>
              Ceilings = <<1000, 1000, 1000, 1000>>
        /\ calibrationStatus = CALIBRATED_OK =>
              /\ max_ambient \in 10..65000
              /\ max_red <= 65000 /\ max_green <= 65000 /\ max_blue <= 65000
              /\ max_red >= 10 \/ max_green >= 10 \/ max_blue >= 10

\* C18: a read made in CALIBRATED_OK with the ambient ceiling at its lower
\* limit and two colour ceilings 0.
C18_Witness ==
    /\ pc = "idle"
    /\ res.op = "readRGB"
    /\ calibrationStatus = CALIBRATED_OK
    /\ max_ambient = 10
    /\ max_red = 0
    /\ max_blue = 0

\* The duration a call that asked for t seconds samples for.
Effective(t) == IF t \in 1..10 THEN t ELSE 5

\* C16: every calibrate call returns; it samples for the duration asked for
\* when that is in 1..10 and for 5 seconds otherwise; it has waited the
\* stabilization interval before the first poll and 100 ms after each poll;
\* it does not return before that duration has elapsed since the start of
\* sampling, nor after more than 10 polls per second of it; and it returns
\* true only with at least 5 samples per second of it.
C16_WindowBounded ==
    /\ [](pc = "sampling" =>
            /\ samplingTimeSeconds = Effective(requested)
            /\ blocked = 500 + 100 * polls
            /\ elapsed >= 100 * polls
            /\ samples <= polls
            /\ polls <= 10 * Effective(requested))
    /\ [][(pc = "sampling" /\ pc' = "idle") =>
              /\ elapsed >= 1000 * Effective(requested)
              /\ polls >= 1
              /\ polls' = polls
              /\ res'.ok <=> samples >= 5 * Effective(requested)]_vars
    /\ (pc = "sampling" ~> pc = "idle")

\* C16: a call that asked for the longest duration has returned true after
\* the largest number of polls, half of them failed.
C16_Witness ==
    /\ pc = "idle"
    /\ requested = 10
    /\ polls = 100
    /\ blocked = 10500
    /\ res.ok
    /\ calibrationStatus = CALIBRATED_OK

====
